---- MODULE Spec2Model ----
(***************************************************************************)
(* A model of src/minesweeper.py: the Minesweeper board, the Sentence      *)
(* class and the MinesweeperAI knowledge base (add_knowledge and the       *)
(* update_knowledge fixpoint loop).                                        *)
(*                                                                         *)
(* The while loop of update_knowledge is modelled one iteration per step   *)
(* (action update_round), because the loop does not terminate on every     *)
(* input; pc records whether a call is inside the loop.                    *)
(*                                                                         *)
(* Spec is the knowledge base under a driver that observes any cell;       *)
(* GameSpec is the knowledge base under the game loop, which probes the    *)
(* cell make_safe_move / make_random_move returned.                        *)
(***************************************************************************)
EXTENDS Integers, Sequences, FiniteSets, TLC

\* ------------------------------------------------------------------ bounds
MaxHeight == 2
MaxWidth == 3
MaxMines == 2
MaxCount == 2
MaxObs == 3
MaxLies == 1
RoundCap == 12
MaxGameHeight == 3
MaxGameWidth == 3
MaxGameMines == 1

VARIABLES
    height,      \* MinesweeperAI.height (= Minesweeper.height)
    width,       \* MinesweeperAI.width
    board,       \* Minesweeper.mines: the cells that hold a mine
    moves_made,  \* MinesweeperAI.moves_made
    mines,       \* MinesweeperAI.mines
    safes,       \* MinesweeperAI.safes
    knowledge,   \* MinesweeperAI.knowledge: a list of Sentences
    pc,          \* "idle": no call running; "loop": inside the while loop
    call,        \* the call that runs or ran last: "none", "observe", "propagate"
    rounds,      \* iterations of the while loop in the current/last call
    entry,       \* knowledge as it was when update_knowledge was entered
    lies,        \* number of add_knowledge calls that broke the driver's contract
    nobs,        \* number of add_knowledge calls so far
    result       \* the value the last call returned: a cell, or None

vars == <<height, width, board, moves_made, mines, safes, knowledge,
          pc, call, rounds, entry, lies, nobs, result>>

\* Python's None, as a value comparable with cells
None == <<>>

\* ------------------------------------------------------------- the board
Cells(h, w) == (0 .. h - 1) \X (0 .. w - 1)

\* Minesweeper.nearby_mines
nearby_mines(b, h, w, cell) ==
    Cardinality({c \in Cells(h, w) :
                    /\ c # cell
                    /\ c[1] \in cell[1] - 1 .. cell[1] + 1
                    /\ c[2] \in cell[2] - 1 .. cell[2] + 1
                    /\ c \in b})

\* Minesweeper.is_mine
is_mine(b, cell) == cell \in b

\* The driver's contract for add_knowledge: "for a given safe cell, how many
\* neighboring cells have mines in them"
honest(b, h, w, cell, count) ==
    ~is_mine(b, cell) /\ count = nearby_mines(b, h, w, cell)

\* ------------------------------------------------------------- Sentence
Sentence(cells, count) == [cells |-> cells, count |-> count]

known_mines_ge(s) ==
    IF Cardinality(s.cells) >= s.count /\ s.count # 0 THEN s.cells ELSE {}

known_mines(s) ==
    IF Cardinality(s.cells) = s.count /\ s.count # 0 THEN s.cells ELSE {}

known_safes(s) ==
    IF s.count = 0 THEN s.cells ELSE {}

Sentence_mark_mine_nodec(s, cell) ==
    IF cell \in s.cells
        THEN Sentence(s.cells \ {cell}, s.count)
        ELSE s

Sentence_mark_mine(s, cell) ==
    IF cell \in s.cells
        THEN Sentence(s.cells \ {cell}, s.count - 1)
        ELSE s

Sentence_mark_safe_keeps(s, cell) == s

Sentence_mark_safe(s, cell) ==
    IF cell \in s.cells
        THEN Sentence(s.cells \ {cell}, s.count)
        ELSE s

\* ---------------------------------------------------------- MinesweeperAI
\* A knowledge base value: the three fields mark_mine / mark_safe touch.
KB(m, s, k) == [mines |-> m, safes |-> s, knowledge |-> k]

mark_mine(kb, cell) ==
    KB(kb.mines \cup {cell}, kb.safes,
       [i \in DOMAIN kb.knowledge |-> Sentence_mark_mine(kb.knowledge[i], cell)])

mark_safe_unmines(kb, cell) ==
    KB(kb.mines \ {cell}, kb.safes \cup {cell},
       [i \in DOMAIN kb.knowledge |-> Sentence_mark_safe(kb.knowledge[i], cell)])

mark_safe_forgets(kb, cell) ==
    KB(kb.mines, kb.safes,
       [i \in DOMAIN kb.knowledge |-> Sentence_mark_safe(kb.knowledge[i], cell)])

mark_safe(kb, cell) ==
    KB(kb.mines, kb.safes \cup {cell},
       [i \in DOMAIN kb.knowledge |-> Sentence_mark_safe(kb.knowledge[i], cell)])

\* "for cell in safes: self.mark_safe(cell)"
RECURSIVE mark_safe_all(_, _)
mark_safe_all(kb, S) ==
    IF S = {} THEN kb
    ELSE LET c == CHOOSE c \in S : TRUE
         IN  mark_safe_all(mark_safe(kb, c), S \ {c})

\* "for cell in mines: self.mark_mine(cell)"
RECURSIVE mark_mine_all(_, _)
mark_mine_all(kb, S) ==
    IF S = {} THEN kb
    ELSE LET c == CHOOSE c \in S : TRUE
         IN  mark_mine_all(mark_mine(kb, c), S \ {c})

\* "x in list" with Sentence.__eq__
InList(x, K) == \E i \in DOMAIN K : K[i] = x

\* The in-bounds 8-neighbours of a cell (add_knowledge, step 2)
Neighbours(h, w, cell) ==
    {c \in Cells(h, w) :
        /\ c # cell
        /\ c[1] \in cell[1] - 1 .. cell[1] + 1
        /\ c[2] \in cell[2] - 1 .. cell[2] + 1}

new_sentence_nodec(kb, h, w, cell, count) ==
    Sentence({c \in Neighbours(h, w, cell) : c \notin kb.mines /\ c \notin kb.safes},
             count)

\* add_knowledge, step 2: the new sentence over the unresolved neighbours
new_sentence(kb, h, w, cell, count) ==
    Sentence({c \in Neighbours(h, w, cell) : c \notin kb.mines /\ c \notin kb.safes},
             count - Cardinality(Neighbours(h, w, cell) \cap kb.mines))

append_always(K, s) == Append(K, s)

\* add_knowledge, step 3: append unless an equal sentence is in the list
append_new(K, s) == IF InList(s, K) THEN K ELSE Append(K, s)

difference_keeps_count(s1, s2) == Sentence(s2.cells \ s1.cells, s2.count)

\* update_knowledge, subset inference: the candidate derived from (s1, s2)
difference(s1, s2) == Sentence(s2.cells \ s1.cells, s2.count - s1.count)

\* whether the pair (s1, s2) passes "continue" and the issubset test
infers(s1, s2) ==
    /\ ~(s1 = s2 \/ s1.cells = {} \/ s2.cells = {})
    /\ s1.cells \subseteq s2.cells

RECURSIVE inner_loop_nodedup(_, _, _, _)
inner_loop_nodedup(K, s1, j, acc) ==
    IF j > Len(K) THEN acc
    ELSE LET d == difference(s1, K[j])
         IN  IF infers(s1, K[j]) /\ ~InList(d, acc)
                 THEN inner_loop_nodedup(K, s1, j + 1, Append(acc, d))
                 ELSE inner_loop_nodedup(K, s1, j + 1, acc)

\* the inner loop "for s2 in self.knowledge", from index j on
RECURSIVE inner_loop(_, _, _, _)
inner_loop(K, s1, j, acc) ==
    IF j > Len(K) THEN acc
    ELSE LET d == difference(s1, K[j])
         IN  IF infers(s1, K[j]) /\ ~InList(d, K) /\ ~InList(d, acc)
                 THEN inner_loop(K, s1, j + 1, Append(acc, d))
                 ELSE inner_loop(K, s1, j + 1, acc)

subset_inferences_first(K, i, acc) ==
    IF K = <<>> THEN acc ELSE inner_loop(K, K[1], 1, acc)

\* the outer loop "for s1 in self.knowledge", from index i on;
\* the result is new_inferences
RECURSIVE subset_inferences(_, _, _)
subset_inferences(K, i, acc) ==
    IF i > Len(K) THEN acc
    ELSE subset_inferences(K, i + 1, inner_loop(K, K[i], 1, acc))

drop_empty_not(K) == K

\* "self.knowledge = [s for s in self.knowledge if s.cells]"
NonEmpty(s) == s.cells # {}
drop_empty(K) == SelectSeq(K, NonEmpty)

\* The facts one round extracts, over all sentences
round_safes(K) == UNION {known_safes(K[i]) : i \in DOMAIN K}
round_mines_first(K) == IF K = <<>> THEN {} ELSE known_mines(K[1])

round_mines(K) == UNION {known_mines(K[i]) : i \in DOMAIN K}

\* Whether the round sets updated = True
round_updated_facts_only(S, M, inf) == S # {} \/ M # {}

round_updated(S, M, inf) == S # {} \/ M # {} \/ inf # <<>>

\* ---------------------------------------------------------------- Init
Init ==
    /\ height \in 1 .. MaxHeight
    /\ width \in 1 .. MaxWidth
    /\ board \in {b \in SUBSET Cells(height, width) : Cardinality(b) <= MaxMines}
    /\ moves_made = {}
    /\ mines = {}
    /\ safes = {}
    /\ knowledge = <<>>
    /\ pc = "idle"
    /\ call = "none"
    /\ rounds = 0
    /\ entry = <<>>
    /\ lies = 0
    /\ nobs = 0
    /\ result = None

\* -------------------------------------------------------------- actions
\* add_knowledge(cell, count), steps 1-3, then entering update_knowledge
add_knowledge(cell, count) ==
    /\ pc = "idle"
    /\ LET kb1 == mark_safe(KB(mines, safes, knowledge), cell)
           s   == new_sentence(kb1, height, width, cell, count)
           K   == append_new(kb1.knowledge, s)
       IN  /\ moves_made' = moves_made \cup {cell}
           /\ safes' = kb1.safes
           /\ mines' = kb1.mines
           /\ knowledge' = K
           /\ entry' = K
    /\ pc' = "loop"
    /\ call' = "observe"
    /\ rounds' = 0
    /\ lies' = IF honest(board, height, width, cell, count) THEN lies ELSE lies + 1
    /\ nobs' = nobs + 1
    /\ result' = None
    /\ UNCHANGED <<height, width, board>>

\* update_knowledge() called on its own
update_knowledge ==
    /\ pc = "idle"
    /\ pc' = "loop"
    /\ call' = "propagate"
    /\ rounds' = 0
    /\ entry' = knowledge
    /\ result' = None
    /\ UNCHANGED <<height, width, board, moves_made, mines, safes, knowledge,
                   lies, nobs>>

\* One iteration of "while updated"
update_round ==
    /\ pc = "loop"
    /\ LET S   == round_safes(knowledge)
           M   == round_mines(knowledge)
           kb1 == mark_safe_all(KB(mines, safes, knowledge), S)
           kb2 == mark_mine_all(kb1, M)
           inf == subset_inferences(kb2.knowledge, 1, <<>>)
       IN  /\ safes' = kb2.safes
           /\ mines' = kb2.mines
           /\ knowledge' = drop_empty(kb2.knowledge \o inf)
           /\ pc' = IF round_updated(S, M, inf) THEN "loop" ELSE "idle"
    /\ rounds' = IF rounds < RoundCap THEN rounds + 1 ELSE rounds
    /\ UNCHANGED <<height, width, board, moves_made, call, entry, lies, nobs,
                   result>>

\* The knowledge base of the running round after its two marking loops
round_marked ==
    mark_mine_all(mark_safe_all(KB(mines, safes, knowledge), round_safes(knowledge)),
                  round_mines(knowledge))

\* The list of the running round after "self.knowledge.extend(new_inferences)"
\* and before the empty sentences are dropped
round_extended ==
    round_marked.knowledge \o subset_inferences(round_marked.knowledge, 1, <<>>)

\* The driver's observations: the true count of a non-mine cell, or (at most
\* MaxLies times) any cell with a count in 0 .. MaxCount; MaxObs calls in all
Observe ==
    \E cell \in Cells(height, width) :
        \E count \in (0 .. MaxCount) \cup {nearby_mines(board, height, width, cell)} :
            /\ nobs < MaxObs
            /\ honest(board, height, width, cell, count) \/ lies < MaxLies
            /\ add_knowledge(cell, count)

\* Every add_knowledge so far kept the driver's contract
truthful == lies = 0

Next == Observe \/ update_knowledge \/ update_round

Spec == Init /\ [][Next]_vars

\* ------------------------------------------------------- move selection
safe_move_results_any(sf, mm) == IF sf = {} THEN {None} ELSE sf

\* make_safe_move: the values it can return; the cell found first depends on
\* the iteration order of the set safes
safe_move_results(sf, mm) == IF sf \ mm = {} THEN {None} ELSE sf \ mm

random_move_results_keeps_mines(h, w, mm, mn) ==
    LET choices == {c \in Cells(h, w) : c \notin mm}
    IN  IF choices = {} THEN {None} ELSE choices

random_move_results_keeps_moves(h, w, mm, mn) ==
    LET choices == {c \in Cells(h, w) : c \notin mn}
    IN  IF choices = {} THEN {None} ELSE choices

\* make_random_move: the values it can return
random_move_results(h, w, mm, mn) ==
    LET choices == {c \in Cells(h, w) : c \notin mm /\ c \notin mn}
    IN  IF choices = {} THEN {None} ELSE choices

make_safe_move ==
    /\ pc = "idle"
    /\ result' \in safe_move_results(safes, moves_made)
    /\ call' = "safe_move"
    /\ UNCHANGED <<height, width, board, moves_made, mines, safes, knowledge,
                   pc, rounds, entry, lies, nobs>>

make_random_move ==
    /\ pc = "idle"
    /\ result' \in random_move_results(height, width, moves_made, mines)
    /\ call' = "random_move"
    /\ UNCHANGED <<height, width, board, moves_made, mines, safes, knowledge,
                   pc, rounds, entry, lies, nobs>>

\* -------------------------------------------------------------- game loop
\* A fresh game: a board with its AI
GameInit ==
    /\ height \in 1 .. MaxGameHeight
    /\ width \in 1 .. MaxGameWidth
    /\ board \in {b \in SUBSET Cells(height, width) : Cardinality(b) <= MaxGameMines}
    /\ moves_made = {}
    /\ mines = {}
    /\ safes = {}
    /\ knowledge = <<>>
    /\ pc = "idle"
    /\ call = "none"
    /\ rounds = 0
    /\ entry = <<>>
    /\ lies = 0
    /\ nobs = 0
    /\ result = None

\* The driver asks for a safe move first
GameSafeMove ==
    /\ call \in {"none", "observe"}
    /\ make_safe_move

\* and for a random move when there is no safe one
GameRandomMove ==
    /\ call = "safe_move" /\ result = None
    /\ make_random_move

\* It probes the chosen cell and, unless it is a mine, reports the board's count;
\* it stops when there is no move or the chosen cell is a mine
GameProbe ==
    /\ call \in {"safe_move", "random_move"}
    /\ result # None
    /\ ~is_mine(board, result)
    /\ add_knowledge(result, nearby_mines(board, height, width, result))

GameNext == GameSafeMove \/ GameRandomMove \/ GameProbe \/ update_round

GameSpec == GameInit /\ [][GameNext]_vars

TypeOK ==
    /\ height \in (1 .. MaxHeight) \cup (1 .. MaxGameHeight)
    /\ width \in (1 .. MaxWidth) \cup (1 .. MaxGameWidth)
    /\ board \subseteq Cells(height, width)
    /\ moves_made \subseteq Cells(height, width)
    /\ mines \subseteq Cells(height, width)
    /\ safes \subseteq Cells(height, width)
    /\ pc \in {"idle", "loop"}
    /\ call \in {"none", "observe", "propagate", "safe_move", "random_move"}
    /\ rounds \in 0 .. RoundCap
    /\ lies \in 0 .. MaxLies
    /\ nobs \in 0 .. height * width + MaxObs
    /\ result \in Cells(height, width) \cup {None}

\* ---------------------------------------------------------------- claims
\* A call has returned and it was add_knowledge
Returned == pc = "idle"
ObserveReturned == pc = "idle" /\ call = "observe"

\* C1 (soundness): while every observation reported a non-mine cell with its
\* true neighbour count, no cell of safes is a mine of the board and every
\* cell of mines is a mine of the board.
C1_Soundness ==
    truthful => (safes \cap board = {} /\ mines \subseteq board)

\* C1 witness: truthful observations returned with an inferred mine and an
\* inferred safe cell that was never probed.
C1_Witness ==
    /\ ObserveReturned /\ truthful
    /\ mines # {}
    /\ safes \ moves_made # {}

\* C2 as stated: safes and mines are disjoint after any sequence of
\* observations with in-bounds cells and counts >= 0.
C2_DisjointAnyInput == safes \cap mines = {}

\* C2 amended: safes and mines are disjoint in every state reached by
\* observations that report a non-mine cell with its true neighbour count.
C2_DisjointTruthful == truthful => safes \cap mines = {}

\* C2 witness: truthful observations returned with both sets non-empty and
\* one of the probed cells next to a known mine.
C2_Witness ==
    /\ ObserveReturned /\ truthful
    /\ mines # {}
    /\ \E c \in moves_made : Neighbours(height, width, c) \cap mines # {}

\* C3 as stated: an inconsistent constraint (count negative or larger than
\* its cell set) is never kept in the knowledge base; the code has no error
\* outcome, so the only way to satisfy the claim is not to store one.
C3_InconsistentNotKept ==
    \A i \in DOMAIN knowledge :
        /\ knowledge[i].count >= 0
        /\ knowledge[i].count <= Cardinality(knowledge[i].cells)

\* C6 (monotonicity): no step removes a cell from safes or from mines.
C6_Monotone == [][safes \subseteq safes' /\ mines \subseteq mines']_vars

\* C6 witness: both sets hold an inferred cell while a further call runs.
C6_Witness ==
    /\ nobs >= 2 /\ pc = "loop"
    /\ mines # {}
    /\ safes \ moves_made # {}

\* C7: every probed cell is in safes.
C7_MovesSafe == moves_made \subseteq safes

\* C7 witness: two different cells were probed, one of them a cell the
\* knowledge base holds to be a mine, and the call returned.
C7_Witness ==
    /\ ObserveReturned
    /\ Cardinality(moves_made) >= 2
    /\ moves_made \cap mines # {}

\* C4 as stated: every call that enters the while loop leaves it, whatever
\* counts the driver reported.  A round is a function of (mines, safes,
\* knowledge), so the loop is left exactly when no round continues from a
\* state it has left unchanged: such a round repeats forever.
C4_LoopTerminates ==
    [][(pc = "loop" /\ safes' = safes /\ mines' = mines /\ knowledge' = knowledge)
        => pc' = "idle"]_vars

\* C5 as stated: the rounds of one update_knowledge call number strictly
\* less than height * width + the number of sentences stored at its entry
\* (truthful observations).
C5_RoundsStrictlyBelow ==
    truthful => rounds < height * width + Len(entry)

\* C5 amended: the rounds of one update_knowledge call number at most
\* height * width + the number of sentences stored at its entry (truthful
\* observations); the counter never reaches its cap.
C5_RoundsAtMost ==
    truthful => (rounds < RoundCap /\ rounds <= height * width + Len(entry))

\* C5 witness: a truthful add_knowledge returned after at least three rounds.
C5_Witness ==
    /\ ObserveReturned /\ truthful
    /\ rounds >= 3

Entry == {entry[i] : i \in DOMAIN entry}

\* C9 (subset subtraction): when update_knowledge has returned on truthful
\* observations, for every two sentences S1, S2 stored at its entry with
\* S1.cells a proper subset of S2.cells: if S2.count - S1.count equals the
\* size of S2.cells - S1.cells, every cell of the difference is in mines, and
\* if S2.count = S1.count, every cell of the difference is in safes.
C9_SubsetSubtraction ==
    (Returned /\ truthful) =>
        \A s1 \in Entry : \A s2 \in Entry :
            (s1.cells \subseteq s2.cells /\ s1.cells # s2.cells) =>
                LET d == s2.cells \ s1.cells IN
                /\ (s2.count - s1.count = Cardinality(d)) => d \subseteq mines
                /\ (s2.count = s1.count) => d \subseteq safes

\* C9 witness: the case ({A,B,C}, 2) and ({A,B}, 1): both were stored at
\* entry, the call returned and C is in mines.
C9_Witness ==
    /\ Returned /\ truthful
    /\ \E s1 \in Entry : \E s2 \in Entry :
          /\ Cardinality(s1.cells) = 2 /\ s1.count = 1
          /\ Cardinality(s2.cells) = 3 /\ s2.count = 2
          /\ s1.cells \subseteq s2.cells
          /\ (s2.cells \ s1.cells) \subseteq mines

\* C10 (direct rules): when update_knowledge has returned on truthful
\* observations, every sentence stored at its entry with count = 0 has all
\* its cells in safes and none in mines, and every sentence stored at its
\* entry with count = |cells| > 0 has all its cells in mines and none in safes.
C10_DirectRules ==
    (Returned /\ truthful) =>
        \A s \in Entry :
            /\ (s.count = 0) =>
                  (s.cells \subseteq safes /\ s.cells \cap mines = {})
            /\ (s.count = Cardinality(s.cells) /\ s.count > 0) =>
                  (s.cells \subseteq mines /\ s.cells \cap safes = {})

\* C10 witness: a call returned whose entry held a sentence with
\* count = |cells| >= 2 after an earlier sentence, on a knowledge base that
\* also holds inferred safe cells.
C10_Witness ==
    /\ Returned /\ truthful
    /\ Len(entry) >= 2
    /\ \E s \in Entry : s.count = Cardinality(s.cells) /\ s.count >= 2
    /\ safes \ moves_made # {}

\* C14: when add_knowledge has returned, no cell of a stored sentence is in
\* safes or in mines.
C14_NoResolvedCellStored ==
    ObserveReturned =>
        \A i \in DOMAIN knowledge :
            knowledge[i].cells \cap (safes \cup mines) = {}

\* C14 witness: add_knowledge returned with stored sentences, after cells
\* were inferred safe and inferred to be mines.
C14_Witness ==
    /\ ObserveReturned
    /\ knowledge # <<>>
    /\ mines # {}
    /\ safes \ moves_made # {}

\* A sentence whose count lies between 0 and the size of its cell set
Consistent(s) == s.count >= 0 /\ s.count <= Cardinality(s.cells)

\* C15: under truthful observations every sentence in the list satisfies
\* 0 <= count <= |cells|, in every state and, inside a round, also in the
\* list as extended by the new inferences before empty sentences are dropped.
C15_CountInRange ==
    truthful =>
        /\ \A i \in DOMAIN knowledge : Consistent(knowledge[i])
        /\ (pc = "loop") =>
              \A i \in DOMAIN round_extended : Consistent(round_extended[i])

\* C15 witness: inside the loop, on truthful observations, a round marks a
\* mine (reducing counts) and is about to store a derived sentence with a
\* positive count.
C15_Witness ==
    /\ truthful /\ pc = "loop"
    /\ round_mines(knowledge) # {}
    /\ \E i \in Len(round_marked.knowledge) + 1 .. Len(round_extended) :
          round_extended[i].count >= 1

\* No two positions of a list hold equal sentences
NoDuplicates(K) ==
    \A i \in DOMAIN K : \A j \in DOMAIN K : (i # j) => K[i] # K[j]

\* C17 as stated: when add_knowledge has returned on truthful observations,
\* the list holds no two equal sentences.
C17_NoDuplicatesStored ==
    (ObserveReturned /\ truthful) => NoDuplicates(knowledge)

\* C17 amended: a sentence equal to one already in the list is never added:
\* add_knowledge extends the list by at most one sentence, which differs from
\* all sentences before it, and every sentence a round appends differs from
\* all sentences before it in the extended list (truthful observations).
C17_NoDuplicateAdded ==
    [][(lies' = 0) =>
        /\ (pc = "idle" /\ call' = "observe") =>
              /\ Len(knowledge') <= Len(knowledge) + 1
              /\ (Len(knowledge') = Len(knowledge) + 1) =>
                    \A j \in 1 .. Len(knowledge) :
                        knowledge'[j] # knowledge'[Len(knowledge')]
        /\ (pc = "loop") =>
              \A i \in Len(round_marked.knowledge) + 1 .. Len(round_extended) :
                  \A j \in 1 .. i - 1 : round_extended[j] # round_extended[i]]_vars

\* C17 witness: on truthful observations a round is about to append two
\* derived sentences to a list of at least two.
C17_Witness ==
    /\ truthful /\ pc = "loop"
    /\ Len(knowledge) >= 2
    /\ Len(round_extended) >= Len(round_marked.knowledge) + 2

\* C18: when add_knowledge has returned on truthful observations, every
\* stored sentence has a non-empty cell set and 0 < count < |cells|.
C18_FixpointQuality ==
    (ObserveReturned /\ truthful) =>
        \A i \in DOMAIN knowledge :
            /\ knowledge[i].cells # {}
            /\ 0 < knowledge[i].count
            /\ knowledge[i].count < Cardinality(knowledge[i].cells)

\* C18 witness: add_knowledge returned on truthful observations after at
\* least two rounds with sentences left in the list.
C18_Witness ==
    /\ ObserveReturned /\ truthful
    /\ rounds >= 2
    /\ knowledge # <<>>

\* The cells make_safe_move may return and those make_random_move may return
SafeCandidates == safes \ moves_made
RandomCandidates == (Cells(height, width) \ moves_made) \ mines

\* C11: make_safe_move returns a cell of safes that is not in moves_made
\* when there is one and None exactly when there is none, and it changes
\* none of moves_made, safes, mines and knowledge.
C11_SafeMove ==
    [][(call' = "safe_move") =>
        /\ (result' = None) <=> (SafeCandidates = {})
        /\ (result' # None) => (result' \in safes /\ result' \notin moves_made)
        /\ UNCHANGED <<moves_made, safes, mines, knowledge>>]_vars

\* C11 witness: make_safe_move returned None with safes = moves_made = {(0,0)}.
C11_Witness ==
    /\ call = "safe_move" /\ result = None
    /\ safes = {<<0, 0>>} /\ moves_made = {<<0, 0>>}

\* C12: make_random_move returns a cell of the grid that is in neither
\* moves_made nor mines when there is one (any of them can be returned, and
\* the only one when there is exactly one) and None exactly when there is
\* none, and it changes none of moves_made, safes, mines and knowledge.
C12_RandomMove ==
    [][(call' = "random_move") =>
        /\ (result' = None) <=> (RandomCandidates = {})
        /\ (result' # None) => result' \in RandomCandidates
        /\ (RandomCandidates # {}) =>
              random_move_results(height, width, moves_made, mines) = RandomCandidates
        /\ UNCHANGED <<moves_made, safes, mines, knowledge>>]_vars

\* C12 witness: make_random_move returned the only cell left, on a grid where
\* other cells are probed and a mine is known.
C12_Witness ==
    /\ call = "random_move"
    /\ RandomCandidates = {result}
    /\ mines # {} /\ moves_made # {}

\* The scenario of C13 on the 3x3 grid
C13_Scenario ==
    (/\ height = 3 /\ width = 3 /\ ObserveReturned
     /\ nearby_mines(board, 3, 3, <<1, 1>>) = 1) =>
        /\ (moves_made = {<<1, 1>>}) =>
              /\ knowledge = <<[cells |-> Cells(3, 3) \ {<<1, 1>>}, count |-> 1]>>
              /\ safes = {<<1, 1>>}
              /\ mines = {}
        /\ (/\ moves_made = {<<1, 1>>, <<0, 1>>}
            /\ nearby_mines(board, 3, 3, <<0, 1>>) = 0) =>
              /\ knowledge = <<[cells |-> {<<2, 0>>, <<2, 1>>, <<2, 2>>}, count |-> 1]>>
              /\ safes = {<<1, 1>>, <<0, 1>>, <<0, 0>>, <<0, 2>>, <<1, 0>>, <<1, 2>>}
              /\ mines = {}

\* C13: add_knowledge(cell, count), for the probed cell and the board's
\* count, adds cell to moves_made and safes, erases it from the stored
\* sentences, adds (unless an equal one is stored) the sentence over the
\* in-bounds neighbours in neither safes nor mines with count minus the number
\* of neighbours in mines, and enters the loop; and the 3x3 scenario ends as
\* the claim says.
C13_Observe ==
    [][/\ (pc = "idle" /\ call' = "observe") =>
            LET c   == result
                n   == nearby_mines(board, height, width, c)
                N   == {x \in Cells(height, width) :
                           /\ x # c
                           /\ x[1] - c[1] \in {-1, 0, 1}
                           /\ x[2] - c[2] \in {-1, 0, 1}}
                new == [cells |-> {x \in N : x \notin safes' /\ x \notin mines},
                        count |-> n - Cardinality(N \cap mines)]
                old == [i \in DOMAIN knowledge |->
                           [cells |-> knowledge[i].cells \ {c},
                            count |-> knowledge[i].count]]
            IN  /\ moves_made' = moves_made \cup {c}
                /\ safes' = safes \cup {c}
                /\ mines' = mines
                /\ knowledge' = IF \E i \in DOMAIN old : old[i] = new
                                    THEN old ELSE Append(old, new)
                /\ pc' = "loop"
       /\ C13_Scenario']_vars

\* C13 witness: the scenario ran to its end: (1,1) with count 1 and (0,1)
\* with count 0 were probed on the 3x3 grid and the call returned.
C13_Witness ==
    /\ height = 3 /\ width = 3 /\ ObserveReturned
    /\ nearby_mines(board, 3, 3, <<1, 1>>) = 1
    /\ nearby_mines(board, 3, 3, <<0, 1>>) = 0
    /\ moves_made = {<<1, 1>>, <<0, 1>>}
    /\ Len(knowledge) = 1

\* C19: in the game loop every probed cell is a cell that was not in
\* moves_made, moves_made grows by exactly that cell per add_knowledge, and
\* the number of probes never exceeds height * width, each of them returning
\* before the round counter reaches its cap.
C19_GameProgress ==
    [][/\ (pc = "idle" /\ call' = "observe") =>
            /\ result \notin moves_made
            /\ moves_made' = moves_made \cup {result}
            /\ Cardinality(moves_made') = Cardinality(moves_made) + 1
       /\ nobs' <= height * width
       /\ nobs' = Cardinality(moves_made')
       /\ rounds' < RoundCap]_vars

\* C19 witness: a game on a grid of at least four cells with a mine ended
\* with every cell that is not a mine probed and no move left.
C19_Witness ==
    /\ call = "random_move" /\ result = None
    /\ height * width >= 4
    /\ board # {}
    /\ moves_made = Cells(height, width) \ board

\* The sentences of a list, as a set of values
SetOf(K) == {K[i] : i \in DOMAIN K}

\* One round stated on the set of sentence values alone, with no order:
\* the facts, each sentence reduced by them, the differences that are new,
\* and whether anything was found
FreeSafes(Q) == UNION {q.cells : q \in {x \in Q : x.count = 0}}
FreeMines(Q) ==
    UNION {q.cells : q \in {x \in Q : Cardinality(x.cells) = x.count /\ x.count # 0}}
FreeReduced(Q) ==
    {[cells |-> (q.cells \ FreeSafes(Q)) \ FreeMines(Q),
      count |-> q.count - Cardinality((q.cells \ FreeSafes(Q)) \cap FreeMines(Q))] :
        q \in Q}
FreeDerived(Q) ==
    {[cells |-> p[2].cells \ p[1].cells, count |-> p[2].count - p[1].count] :
        p \in {x \in FreeReduced(Q) \X FreeReduced(Q) :
                  /\ x[1] # x[2] /\ x[1].cells # {} /\ x[2].cells # {}
                  /\ x[1].cells \subseteq x[2].cells}} \ FreeReduced(Q)

\* C16: a round's safes, mines, set of sentence values and updated flag are
\* the order-free round of the set of stored sentence values, whatever the
\* order (and multiplicity) of the list, and marking two cells of a round's
\* facts in either order gives the same knowledge base; so the whole loop
\* depends on the list only through its set of values.
C16_OrderFree ==
    [][(pc = "loop") =>
        LET Q   == SetOf(knowledge)
            kb  == KB(mines, safes, knowledge)
            kb1 == mark_safe_all(kb, round_safes(knowledge))
        IN  /\ safes' = safes \cup FreeSafes(Q)
            /\ mines' = mines \cup FreeMines(Q)
            /\ SetOf(knowledge') =
                  {q \in FreeReduced(Q) \cup FreeDerived(Q) : q.cells # {}}
            /\ (pc' = "loop") <=>
                  (FreeSafes(Q) # {} \/ FreeMines(Q) # {} \/ FreeDerived(Q) # {})
            /\ \A c1 \in round_safes(knowledge) : \A c2 \in round_safes(knowledge) :
                  mark_safe(mark_safe(kb, c1), c2) = mark_safe(mark_safe(kb, c2), c1)
            /\ \A c1 \in round_mines(knowledge) : \A c2 \in round_mines(knowledge) :
                  mark_mine(mark_mine(kb1, c1), c2) = mark_mine(mark_mine(kb1, c2), c1)]_vars

\* C16 witness: a round is about to run on a list of at least three sentences, mark
\* at least two cells and append a derived sentence.
C16_Witness ==
    /\ pc = "loop"
    /\ Len(knowledge) >= 3
    /\ Cardinality(round_safes(knowledge) \cup round_mines(knowledge)) >= 2
    /\ Len(round_extended) > Len(round_marked.knowledge)
====
